---------------------------- MODULE Spec2Model ----------------------------
(***************************************************************************)
(* Model of scripts/map_rc_to_slack.py: the conversion of a Rocket.Chat    *)
(* database (users, rooms, messages) into Slack import files.              *)
(*                                                                         *)
(* Python strings are sequences of one-character strings.  Names the       *)
(* script uses without importing them (re, csv, tqdm, ASCENDING) are taken *)
(* with their standard meaning; datetime is bound as line 22 binds it.     *)
(* The environment of a run is the database, the time zone of the process, *)
(* whether --json-dir is given, and which open, write or close fails.      *)
(***************************************************************************)
EXTENDS Integers, Sequences, FiniteSets, TLC

(***************************************************************************)
(* Bounds of the model.                                                    *)
(***************************************************************************)
\* longest text handed to prepare_message_for_csv on its own
MaxTextLen == 4
\* largest max_length argument tried next to the default
MaxMaxLength == 3
\* stand-in for the default max_length the export loop uses (4000 in the source)
ScaledMaxLength == 3
\* stand-in for CHUNK_SIZE (1000 in the source)
ScaledChunkSize == 2
MaxUsers == 3
MaxRooms == 2
MaxMsgs == 3
\* ticks of a datetime in one second: timestamp() is truncated to seconds
TicksPerSecond == 2

(***************************************************************************)
(* Program constants.                                                      *)
(***************************************************************************)
DEFAULT_MAX_LENGTH == 4000
SLUG_MAX == 80
UID_WIDTH == 7

(***************************************************************************)
(* Characters and strings.                                                 *)
(***************************************************************************)
\* line feed, then the printable ASCII characters 32..126 in code order
\* (the grave accent, code 96, left out)
Alphabet ==
  << "\n", " ", "!", "\"", "#", "$", "%", "&", "'", "(", ")", "*", "+", ",",
     "-", ".", "/", "0", "1", "2", "3", "4", "5", "6", "7", "8", "9", ":",
     ";", "<", "=", ">", "?", "@", "A", "B", "C", "D", "E", "F", "G", "H",
     "I", "J", "K", "L", "M", "N", "O", "P", "Q", "R", "S", "T", "U", "V",
     "W", "X", "Y", "Z", "[", "\\", "]", "^", "_", "a", "b", "c", "d",
     "e", "f", "g", "h", "i", "j", "k", "l", "m", "n", "o", "p", "q", "r",
     "s", "t", "u", "v", "w", "x", "y", "z", "{", "|", "}", "~" >>

Ord(c) == CHOOSE i \in 1..Len(Alphabet) : Alphabet[i] = c

Min(a, b) == IF a <= b THEN a ELSE b

QUOTE == "\""
LF == "\n"

\* str.lower() of one character
Lower(c) ==
  IF Ord(c) >= Ord("A") /\ Ord(c) <= Ord("Z") THEN Alphabet[Ord(c) + 31] ELSE c

\* the character class [a-z0-9_-] of the pattern of slug
SlugSafe(c) ==
  \/ Ord(c) >= Ord("a") /\ Ord(c) <= Ord("z")
  \/ Ord(c) >= Ord("0") /\ Ord(c) <= Ord("9")
  \/ c = "_"
  \/ c = "-"

\* s < t in Python's (code point) string order
RECURSIVE StrLess(_, _)
StrLess(s, t) ==
  IF t = <<>> THEN FALSE
  ELSE IF s = <<>> THEN TRUE
  ELSE IF Head(s) = Head(t) THEN StrLess(Tail(s), Tail(t))
  ELSE Ord(Head(s)) < Ord(Head(t))

\* str(n) for n >= 0
RECURSIVE Dec(_)
Dec(n) ==
  IF n < 10 THEN <<Alphabet[Ord("0") + n]>>
  ELSE Dec(n \div 10) \o <<Alphabet[Ord("0") + (n % 10)]>>

\* format(n, "07d"): zero-padded to UID_WIDTH digits, longer when n needs more
ZeroPad(n) ==
  LET d == Dec(n)
  IN  IF Len(d) >= UID_WIDTH THEN d
      ELSE [i \in 1..(UID_WIDTH - Len(d)) |-> "0"] \o d

\* text.replace('"', '""')
RECURSIVE ReplaceQuotes(_)
ReplaceQuotes(s) ==
  IF s = <<>> THEN <<>>
  ELSE (IF Head(s) = QUOTE THEN <<QUOTE, QUOTE>> ELSE <<Head(s)>>)
         \o ReplaceQuotes(Tail(s))

\* sep.join(items)
RECURSIVE Join(_, _)
Join(sep, items) ==
  IF items = <<>> THEN <<>>
  ELSE IF Len(items) = 1 THEN items[1]
  ELSE items[1] \o sep \o Join(sep, Tail(items))

\* the concatenation of a sequence of sequences
RECURSIVE Flatten(_)
Flatten(seqs) ==
  IF seqs = <<>> THEN <<>> ELSE Head(seqs) \o Flatten(Tail(seqs))

\* Python's None, as a value that is no string of characters
None == <<"None">>

(***************************************************************************)
(* Helper functions of the script.                                         *)
(***************************************************************************)
slug(name) ==
  [i \in 1..Min(Len(name), SLUG_MAX) |->
     IF SlugSafe(Lower(name[i])) THEN Lower(name[i]) ELSE "-"]

escape_for_csv(text) ==
  IF text = None THEN <<>> ELSE ReplaceQuotes(text)

\* f"[Part {i+1}/{num_parts}] "
PartPrefix(i, n) ==
  <<"[", "P", "a", "r", "t", " ">> \o Dec(i) \o <<"/">> \o Dec(n) \o <<"]", " ">>

\* line 175: ceiling division
NumParts(total_length, max_length) ==
  (total_length + max_length - 1) \div max_length

\* the slice taken one character short
Segment_short(escaped_text, i, max_length) ==
  LET total_length == Len(escaped_text)
      start == i * max_length
      end == Min(start + max_length - 1, total_length)
  IN  SubSeq(escaped_text, start + 1, end)

\* lines 178-182: the slice escaped_text[start:end] of loop index i
Segment(escaped_text, i, max_length) ==
  LET total_length == Len(escaped_text)
      start == i * max_length
      end == Min(start + max_length, total_length)
  IN  SubSeq(escaped_text, start + 1, end)

\* the comparison made strict
FitsLimit_strict(escaped_text, max_length) == Len(escaped_text) < max_length

\* line 169: the text fits within the limit
FitsLimit(escaped_text, max_length) == Len(escaped_text) <= max_length

prepare_message_for_csv(text, max_length) ==
  IF text = None \/ text = <<>> THEN << <<>> >>
  ELSE LET escaped_text == ReplaceQuotes(text)
       IN  IF FitsLimit(escaped_text, max_length) THEN <<escaped_text>>
           ELSE LET num_parts == NumParts(Len(escaped_text), max_length)
                IN  [k \in 1..num_parts |->
                       PartPrefix(k, num_parts)
                         \o Segment(escaped_text, k - 1, max_length)]

\* csv.writer, QUOTE_MINIMAL: a field holding the delimiter, the quote
\* character or a line break is quoted, its quote characters doubled
NeedsQuoting(field) ==
  \E i \in 1..Len(field) : field[i] \in {",", QUOTE, LF}

CsvField(field) ==
  IF NeedsQuoting(field) THEN <<QUOTE>> \o ReplaceQuotes(field) \o <<QUOTE>>
  ELSE field


\* sorted(items) and sorted(items, key=...): ascending and stable (items
\* that compare equal keep their order); less[i][j] tells s[i] < s[j]
StableSort(s, less) ==
  LET n == Len(s)
      rank(i) ==
        1 + Cardinality({j \in 1..n :
                           \/ less[j][i]
                           \/ (~less[i][j] /\ j < i)})
  IN  [k \in 1..n |-> s[CHOOSE i \in 1..n : rank(i) = k]]

\* cursor.sort(key, ASCENDING): the documents in some order that ascends by
\* the key; the server fixes no order among documents of equal key
SortedOrders(docs, less) ==
  LET n == Len(docs)
      perms == {q \in [1..n -> 1..n] : \A i, j \in 1..n : i # j => q[i] # q[j]}
  IN  {[i \in 1..n |-> docs[q[i]]] : q \in
         {r \in perms : \A i \in 1..(n - 1) : ~less[r[i + 1]][r[i]]}}

\* sorted(names) of a list of strings
SortedStrings(names) ==
  StableSort(names, [i \in 1..Len(names) |->
                       [j \in 1..Len(names) |-> StrLess(names[i], names[j])]])

Has(doc, key) == key \in DOMAIN doc

(***************************************************************************)
(* Dates.  pymongo decodes a stored date to a naive datetime (no tzinfo),  *)
(* and datetime.timestamp() reads a naive datetime as local time of the    *)
(* process.  A datetime is a count of ticks; a zone lies `west` ticks      *)
(* behind UTC and sets its clocks forward by `shift` ticks, the skipped    *)
(* local times ending at `gap_end`.  A local time before gap_end (a        *)
(* skipped one included) is read with the offset before the change.        *)
(***************************************************************************)
UTC == [west |-> 0, shift |-> 0, gap_end |-> 0]

SpringForwardZone == [west |-> 8, shift |-> 4, gap_end |-> 2]

TimeZones == {UTC, SpringForwardZone}

\* int(d.timestamp()) of a naive datetime d in the zone tz
EpochSeconds(d, tz) ==
  (IF d < tz.gap_end THEN d + tz.west ELSE d + tz.west - tz.shift)
    \div TicksPerSecond


\* The users of the model hold emails, when they do, in the list form.
make_user_entry(rc_user, uid) ==
  LET email ==
        IF /\ Has(rc_user, "emails")
           /\ Len(rc_user.emails) > 0
           /\ Has(rc_user.emails[1], "address")
        THEN rc_user.emails[1].address
        ELSE <<>>
  IN  [id |-> <<"U">> \o ZeroPad(uid),
       name |-> rc_user.username,
       deleted |-> ~(IF Has(rc_user, "active") THEN rc_user.active ELSE TRUE),
       profile |->
         [real_name |->
            IF Has(rc_user, "name") THEN rc_user.name ELSE rc_user.username,
          email |-> email]]

\* lines 105-113 of make_room_entry: the name before slugging
RoomDisplayName(rc_room) ==
  IF ~Has(rc_room, "name")
  THEN IF Has(rc_room, "usernames")
       THEN Join(<<"-">>, SortedStrings(rc_room.usernames))
       ELSE <<"d", "m", "-">> \o rc_room._id
  ELSE rc_room.name

make_room_entry(rc_room, is_private, tz) ==
  [id |-> <<"C">> \o rc_room._id,
   name |-> slug(RoomDisplayName(rc_room)),
   created |-> EpochSeconds(rc_room.ts, tz),
   is_archived |-> (Has(rc_room, "archived") /\ rc_room.archived),
   is_private |-> is_private]

\* lines 346-353: the channel name room_map holds for a room
RoomMapName(r) ==
  IF Has(r, "name") THEN slug(r.name)
  ELSE IF Has(r, "usernames")
       THEN slug(Join(<<"-">>, SortedStrings(r.usernames)))
       ELSE <<"d", "m", "-">> \o r._id

\* The documents of the model carry the msg and file fields only, so the
\* attachments, files and reactions branches add nothing.
process_message_content(msg) ==
  LET content == IF Has(msg, "msg") THEN msg.msg ELSE <<>>
  IN  IF Has(msg, "file")
      THEN content \o (IF content # <<>> THEN <<LF>> ELSE <<>>)
             \o <<"[", "F", "i", "l", "e", ":", " ">> \o msg.file.name \o <<"]">>
      ELSE content

\* lines 393 and 461: a message with its room, its author and its timestamp
Valid(msg) == Has(msg, "rid") /\ Has(msg, "u") /\ Has(msg, "ts")

(***************************************************************************)
(* The source databases of the model.                                      *)
(***************************************************************************)
s_bob == <<"b", "o", "b">>
s_alice == <<"a", "l", "i", "c", "e">>
s_carol == <<"c", "a", "r", "o", "l">>
s_Bob == <<"B", "o", "b">>
s_eve == <<"e", "v", "e">>
s_GENERAL == <<"G", "E", "N", "E", "R", "A", "L">>
s_General == <<"G", "e", "n", "e", "r", "a", "l">>
s_ab == <<"a", "b">>
s_zz == <<"z", "z">>

UserPool ==
  { [_id |-> "u1", username |-> s_bob],
    [_id |-> "u2", username |-> s_alice, name |-> <<"A", "l">>,
     active |-> FALSE, emails |-> <<[address |-> <<"a", "@", "x">>]>>],
    [_id |-> "u3", username |-> s_carol, emails |-> <<>>],
    [_id |-> "u4", username |-> s_Bob] }

RoomPool ==
  { [_id |-> s_GENERAL, t |-> "c", name |-> s_General, ts |-> 3],
    [_id |-> <<"r", "2">>, t |-> "p", name |-> <<"D", "e", "v", " ", "O", "p", "s">>,
     ts |-> 4, archived |-> TRUE],
    [_id |-> s_ab, t |-> "d", usernames |-> <<s_bob, s_alice>>, ts |-> 5],
    [_id |-> <<"c", "d", "7">>, t |-> "d", ts |-> 6],
    [_id |-> <<"X", "y", "Z", "9">>, t |-> "d", ts |-> 7],
    [_id |-> [i \in 1..(SLUG_MAX - 2) |-> "k"], t |-> "l", ts |-> 8] }

LongText == [i \in 1..(ScaledMaxLength + 1) |-> "a"]

author_bob == [_id |-> "u1", username |-> s_bob]
author_alice == [_id |-> "u2", username |-> s_alice]

MsgPool ==
  { [rid |-> s_GENERAL, u |-> author_bob, ts |-> 0, msg |-> <<"a">>],
    [rid |-> s_GENERAL, u |-> author_bob, ts |-> 1, msg |-> <<"a", QUOTE>>],
    [rid |-> s_GENERAL, u |-> author_alice, ts |-> 2, msg |-> LongText],
    [rid |-> s_ab, u |-> author_bob, ts |-> 1, msg |-> <<"a">>,
     file |-> [name |-> <<"f">>]],
    [rid |-> s_zz, u |-> [username |-> s_eve], ts |-> 3, msg |-> <<"a">>],
    [u |-> author_bob, ts |-> 2, msg |-> <<"a">>],
    [rid |-> s_GENERAL, ts |-> 0, msg |-> <<"a">>],
    [rid |-> s_GENERAL, u |-> author_bob, msg |-> <<"a">>] }

\* the sequences of at most n distinct documents of a pool
DistinctSeqs(pool, n) ==
  {q \in UNION {[1..k -> pool] : k \in 0..n} :
     \A i, j \in 1..Len(q) : i # j => q[i] # q[j]}

FixedUsers ==
  << [_id |-> "u1", username |-> s_bob],
     [_id |-> "u2", username |-> s_alice, name |-> <<"A", "l">>,
      active |-> FALSE, emails |-> <<[address |-> <<"a", "@", "x">>]>>] >>

FixedRooms ==
  << [_id |-> s_GENERAL, t |-> "c", name |-> s_General, ts |-> 3],
     [_id |-> s_ab, t |-> "d", usernames |-> <<s_bob, s_alice>>, ts |-> 5] >>

FixedMessages ==
  << [rid |-> s_GENERAL, u |-> author_alice, ts |-> 2, msg |-> LongText],
     [rid |-> s_ab, u |-> author_bob, ts |-> 0, msg |-> <<"a">>] >>

\* a database varies its users, its rooms or its messages
Databases ==
  {[users |-> us, rooms |-> FixedRooms, messages |-> FixedMessages] :
     us \in DistinctSeqs(UserPool, MaxUsers)}
  \cup
  {[users |-> FixedUsers, rooms |-> rs, messages |-> FixedMessages] :
     rs \in DistinctSeqs(RoomPool, MaxRooms)}
  \cup
  {[users |-> FixedUsers, rooms |-> FixedRooms, messages |-> ms] :
     ms \in UNION {[1..k -> MsgPool] : k \in 0..MaxMsgs}}

(***************************************************************************)
(* State.                                                                  *)
(***************************************************************************)
VARIABLES
  \* one call of prepare_message_for_csv and the CSV field of each part
  arg_text, arg_max_length, ret_parts, csv_fields, tpc,
  \* the source database, the time zone of the process and the position of
  \* the script
  db, local_tz, pc,
  \* phase 1
  slack_users, uid_map,
  \* phase 2
  rooms_by_type,
  \* files of the output directory: name -> content
  out_files,
  \* phase 3
  room_map, username_map, email_map, messages, msg_idx, message_count,
  csv_files_created, channel_files, csv_disk, close_idx,
  \* phase 4
  total_messages, processed_messages, chunk_start, message_chunk, json_disk,
  \* the global statistics
  stats

textVars == <<arg_text, arg_max_length, ret_parts, csv_fields, tpc>>
pipeVars ==
  <<db, local_tz, pc, slack_users, uid_map, rooms_by_type, out_files, room_map,
    username_map, email_map, messages, msg_idx, message_count,
    csv_files_created, channel_files, csv_disk, close_idx, total_messages,
    processed_messages, chunk_start, message_chunk, json_disk, stats>>
vars == <<textVars, pipeVars>>

(***************************************************************************)
(* prepare_message_for_csv on its own: the texts are all strings over      *)
(* TextChars up to MaxTextLen, None, and the example of the documentation. *)
(***************************************************************************)
TextChars == {"a", QUOTE, LF}

ExampleText == <<"h", "i", " ", QUOTE, "t", "h", "e", "r", "e", QUOTE>>

Texts ==
  UNION {[1..n -> TextChars] : n \in 0..MaxTextLen} \cup {None, ExampleText}

MaxLengths == (1..MaxMaxLength) \cup {DEFAULT_MAX_LENGTH}

\* the pipeline's variables while a single call is examined
PipeIdle ==
  /\ db = [users |-> <<>>, rooms |-> <<>>, messages |-> <<>>]
  /\ local_tz = UTC
  /\ pc = "idle"
  /\ slack_users = <<>>
  /\ uid_map = <<>>
  /\ rooms_by_type = <<>>
  /\ out_files = <<>>
  /\ room_map = <<>>
  /\ username_map = <<>>
  /\ email_map = <<>>
  /\ messages = <<>>
  /\ msg_idx = 0
  /\ message_count = 0
  /\ csv_files_created = <<>>
  /\ channel_files = <<>>
  /\ csv_disk = <<>>
  /\ close_idx = 0
  /\ total_messages = 0
  /\ processed_messages = 0
  /\ chunk_start = 0
  /\ message_chunk = <<>>
  /\ json_disk = <<>>
  /\ stats = <<>>

InitText ==
  /\ arg_text \in Texts
  /\ arg_max_length \in MaxLengths
  /\ ret_parts = <<>>
  /\ csv_fields = <<>>
  /\ tpc = "call"
  /\ PipeIdle

\* text_parts = prepare_message_for_csv(text, max_length)
Prepare ==
  /\ tpc = "call"
  /\ ret_parts' = prepare_message_for_csv(arg_text, arg_max_length)
  /\ tpc' = "prepared"
  /\ UNCHANGED <<arg_text, arg_max_length, csv_fields, pipeVars>>

\* for part in text_parts: writer.writerow([..., part]): the text column
WriteParts ==
  /\ tpc = "prepared"
  /\ csv_fields' = [k \in 1..Len(ret_parts) |-> CsvField(ret_parts[k])]
  /\ tpc' = "written"
  /\ UNCHANGED <<arg_text, arg_max_length, ret_parts, pipeVars>>

NextText == Prepare \/ WriteParts

SpecText == InitText /\ [][NextText]_vars


(***************************************************************************)
(* The script, phase by phase.                                             *)
(***************************************************************************)
\* d[k] = v on a dict
Put(d, k, v) == [x \in DOMAIN d \cup {k} |-> IF x = k THEN v ELSE d[x]]

Init ==
  /\ db \in Databases
  /\ local_tz \in TimeZones
  /\ pc = "phase1"
  /\ slack_users = <<>>
  /\ uid_map = <<>>
  /\ rooms_by_type = <<>>
  /\ out_files = <<>>
  /\ room_map = <<>>
  /\ username_map = <<>>
  /\ email_map = <<>>
  /\ messages = <<>>
  /\ msg_idx = 0
  /\ message_count = 0
  /\ csv_files_created = <<>>
  /\ channel_files = <<>>
  /\ csv_disk = <<>>
  /\ close_idx = 0
  /\ total_messages = 0
  /\ processed_messages = 0
  /\ chunk_start = 0
  /\ message_chunk = <<>>
  /\ json_disk = <<>>
  /\ stats = [users |-> 0,
              channels |-> [public |-> 0, private |-> 0, dm |-> 0, group_dm |-> 0],
              messages |-> [mongodb |-> 0, json_files |-> 0]]
  /\ arg_text = <<>>
  /\ arg_max_length = ScaledMaxLength
  /\ ret_parts = <<>>
  /\ csv_fields = <<>>
  /\ tpc = "idle"

\* the order of username among the documents of a scan
ByUsername(docs) ==
  [i \in 1..Len(docs) |->
     [j \in 1..Len(docs) |-> StrLess(docs[i].username, docs[j].username)]]

\* line 298: db.users.find().sort("username", ASCENDING)
ScanUsersForEntries == SortedOrders(db.users, ByUsername(db.users))

\* the second scan left in the collection's own order
ScanUsersForUidMap_unsorted == {db.users}

\* line 304: db.users.find().sort("username", ASCENDING), a second time
ScanUsersForUidMap == SortedOrders(db.users, ByUsername(db.users))

\* lines 297-300
Phase1Entries ==
  /\ pc = "phase1"
  /\ \E scan \in ScanUsersForEntries :
       slack_users' = [idx \in 1..Len(scan) |-> make_user_entry(scan[idx], idx)]
  /\ stats' = [stats EXCEPT !.users = @ + Len(db.users)]
  /\ pc' = "uid_map"
  /\ UNCHANGED <<db, local_tz, uid_map, rooms_by_type, out_files, room_map, username_map,
                 email_map, messages, msg_idx, message_count, csv_files_created,
                 channel_files, csv_disk, close_idx, total_messages,
                 processed_messages, chunk_start, message_chunk, json_disk,
                 textVars>>

\* lines 303-305: position i of the second scan gets slack_users[i]["id"]
Phase1UidMap ==
  /\ pc = "uid_map"
  /\ \E scan \in ScanUsersForUidMap :
       uid_map' =
         [id \in {scan[i]._id : i \in 1..Len(scan)} |->
            LET last == CHOOSE i \in 1..Len(scan) :
                          /\ scan[i]._id = id
                          /\ \A j \in 1..Len(scan) : scan[j]._id = id => j <= i
            IN  slack_users[last].id]
  /\ out_files' = Put(out_files, "users.json", slack_users)
  /\ pc' = "phase2"
  /\ UNCHANGED <<db, local_tz, slack_users, rooms_by_type, room_map, username_map,
                 email_map, messages, msg_idx, message_count, csv_files_created,
                 channel_files, csv_disk, close_idx, total_messages,
                 processed_messages, chunk_start, message_chunk, json_disk,
                 stats, textVars>>

\* the entries of one kind of room, in the order of db.rocketchat_room.find()
EntriesOfKind(t, is_private) ==
  LET OfKind(r) == r.t = t
      sel == SelectSeq(db.rooms, OfKind)
  IN  [i \in 1..Len(sel) |-> make_room_entry(sel[i], is_private, local_tz)]

\* lines 310-330
Phase2Rooms ==
  /\ pc = "phase2"
  /\ rooms_by_type' =
       [f \in {"channels.json", "groups.json", "dms.json", "mpims.json"} |->
          CASE f = "channels.json" -> EntriesOfKind("c", FALSE)
            [] f = "groups.json" -> EntriesOfKind("p", TRUE)
            [] f = "dms.json" -> EntriesOfKind("d", TRUE)
            [] f = "mpims.json" -> EntriesOfKind("l", TRUE)]
  /\ stats' =
       [stats EXCEPT
          !.channels.public = @ + Len(EntriesOfKind("c", FALSE)),
          !.channels.private = @ + Len(EntriesOfKind("p", TRUE)),
          !.channels.dm = @ + Len(EntriesOfKind("d", TRUE)),
          !.channels.group_dm = @ + Len(EntriesOfKind("l", TRUE))]
  /\ pc' = "phase2_write"
  /\ UNCHANGED <<db, local_tz, slack_users, uid_map, out_files, room_map, username_map,
                 email_map, messages, msg_idx, message_count, csv_files_created,
                 channel_files, csv_disk, close_idx, total_messages,
                 processed_messages, chunk_start, message_chunk, json_disk,
                 textVars>>

\* lines 333-335: a file per kind that has rooms
Phase2Write ==
  /\ pc = "phase2_write"
  /\ out_files' =
       [f \in DOMAIN out_files
               \cup {g \in DOMAIN rooms_by_type : rooms_by_type[g] # <<>>} |->
          IF f \in DOMAIN rooms_by_type THEN rooms_by_type[f] ELSE out_files[f]]
  /\ pc' = "room_map"
  /\ UNCHANGED <<db, local_tz, slack_users, uid_map, rooms_by_type, room_map,
                 username_map, email_map, messages, msg_idx, message_count,
                 csv_files_created, channel_files, csv_disk, close_idx,
                 total_messages, processed_messages, chunk_start, message_chunk,
                 json_disk, stats, textVars>>

\* the last document of a scan with the given _id
LastWithId(docs, id) ==
  docs[CHOOSE i \in 1..Len(docs) :
         /\ docs[i]._id = id
         /\ \A j \in 1..Len(docs) : docs[j]._id = id => j <= i]

\* lines 343-353
BuildRoomMap ==
  /\ pc = "room_map"
  /\ room_map' =
       [id \in {db.rooms[i]._id : i \in 1..Len(db.rooms)} |->
          RoomMapName(LastWithId(db.rooms, id))]
  /\ pc' = "user_maps"
  /\ UNCHANGED <<db, local_tz, slack_users, uid_map, rooms_by_type, out_files,
                 username_map, email_map, messages, msg_idx, message_count,
                 csv_files_created, channel_files, csv_disk, close_idx,
                 total_messages, processed_messages, chunk_start, message_chunk,
                 json_disk, stats, textVars>>

\* lines 365-372: the user has an address in the list form of emails
HasAddress(u) ==
  /\ Has(u, "emails")
  /\ Len(u.emails) > 0
  /\ Has(u.emails[1], "address")

\* lines 356-372
BuildUserMaps ==
  /\ pc = "user_maps"
  /\ username_map' =
       [id \in {db.users[i]._id : i \in 1..Len(db.users)} |->
          LastWithId(db.users, id).username]
  /\ email_map' =
       [id \in {db.users[i]._id : i \in
                  {j \in 1..Len(db.users) : HasAddress(db.users[j])}} |->
          LastWithId(SelectSeq(db.users, HasAddress), id).emails[1].address]
  /\ pc' = "sort_messages"
  /\ UNCHANGED <<db, local_tz, slack_users, uid_map, rooms_by_type, out_files, room_map,
                 messages, msg_idx, message_count, csv_files_created,
                 channel_files, csv_disk, close_idx, total_messages,
                 processed_messages, chunk_start, message_chunk, json_disk,
                 stats, textVars>>

\* the order of the sort key among messages that all hold a ts
ByTs(docs) ==
  [i \in 1..Len(docs) |-> [j \in 1..Len(docs) |-> docs[i].ts < docs[j].ts]]

\* line 384: sorted(all_messages, key=ts), every message holding a ts
SortedByTs(all_messages) == StableSort(all_messages, ByTs(all_messages))

\* line 384 on a message without ts: datetime is the class (line 22), so
\* datetime.datetime.min raises AttributeError and the run ends
SortMessagesFails ==
  /\ pc = "sort_messages"
  /\ \E i \in 1..Len(db.messages) : ~Has(db.messages[i], "ts")
  /\ pc' = "aborted"
  /\ UNCHANGED <<db, local_tz, slack_users, uid_map, rooms_by_type, out_files, room_map,
                 username_map, email_map, messages, msg_idx, message_count,
                 csv_files_created, channel_files, csv_disk, close_idx,
                 total_messages, processed_messages, chunk_start, message_chunk,
                 json_disk, stats, textVars>>

\* lines 383-389
SortMessages ==
  /\ pc = "sort_messages"
  /\ \A i \in 1..Len(db.messages) : Has(db.messages[i], "ts")
  /\ messages' = SortedByTs(db.messages)
  /\ message_count' = 0
  /\ csv_files_created' = <<>>
  /\ channel_files' = <<>>
  /\ msg_idx' = 0
  /\ pc' = "csv_loop"
  /\ UNCHANGED <<db, local_tz, slack_users, uid_map, rooms_by_type, out_files, room_map,
                 username_map, email_map, csv_disk, close_idx, total_messages,
                 processed_messages, chunk_start, message_chunk, json_disk,
                 stats, textVars>>

\* lines 400 and 465: room_map.get(msg['rid'], f"unknown-{msg['rid']}")
ChannelOf(msg) ==
  IF msg.rid \in DOMAIN room_map THEN room_map[msg.rid]
  ELSE <<"u", "n", "k", "n", "o", "w", "n", "-">> \o msg.rid

s_unknown_user ==
  <<"u", "n", "k", "n", "o", "w", "n", "-", "u", "s", "e", "r">>

\* lines 403-404
CsvUserOf(msg) ==
  IF Has(msg.u, "_id") /\ msg.u._id \in DOMAIN username_map
  THEN username_map[msg.u._id]
  ELSE IF Has(msg.u, "username") THEN msg.u.username ELSE s_unknown_user

\* lines 468-469: the email when one is known
JsonUserOf(msg) ==
  IF Has(msg.u, "_id") /\ msg.u._id \in DOMAIN email_map
  THEN email_map[msg.u._id]
  ELSE CsvUserOf(msg)

\* line 397 and 476: int(msg['ts'].timestamp())
Timestamp(msg) == EpochSeconds(msg.ts, local_tz)

\* line 410: prepare_message_for_csv(text), max_length left to its default
TextParts(msg) ==
  prepare_message_for_csv(process_message_content(msg), ScaledMaxLength)

\* line 427: the rows writer.writerow makes of the parts of a message
RowsOf(msg) ==
  LET text_parts == TextParts(msg)
  IN  [k \in 1..Len(text_parts) |->
         [timestamp |-> Timestamp(msg),
          channel |-> CsvField(ChannelOf(msg)),
          username |-> CsvField(CsvUserOf(msg)),
          text |-> CsvField(text_parts[k])]]

HEADER == <<"timestamp", "channel", "username", "text">>

CurrentMsg == messages[msg_idx + 1]

InCsvLoop == pc = "csv_loop" /\ msg_idx < Len(messages)

\* line 417: open(path, 'w') of a channel's file, the file made empty
Opened(disk, channel) ==
  Put(disk, channel,
      [header |-> <<>>, rows |-> <<>>,
       opens |-> (IF channel \in DOMAIN disk THEN disk[channel].opens ELSE 0) + 1,
       closes |-> IF channel \in DOMAIN disk THEN disk[channel].closes ELSE 0])

\* lines 413-423 done as far as the header row (header_written or not)
AfterOpen(disk, channel, header_written) ==
  IF channel \in DOMAIN channel_files THEN disk
  ELSE LET d == Opened(disk, channel)
       IN  [d EXCEPT ![channel].header =
              IF header_written THEN HEADER ELSE <<>>]

\* lines 393-394
CsvSkip ==
  /\ InCsvLoop
  /\ ~Valid(CurrentMsg)
  /\ msg_idx' = msg_idx + 1
  /\ UNCHANGED <<db, local_tz, pc, slack_users, uid_map, rooms_by_type, out_files,
                 room_map, username_map, email_map, messages, message_count,
                 csv_files_created, channel_files, csv_disk, close_idx,
                 total_messages, processed_messages, chunk_start, message_chunk,
                 json_disk, stats, textVars>>

\* lines 396-429 with no I/O error
CsvWrite ==
  /\ InCsvLoop
  /\ Valid(CurrentMsg)
  /\ LET channel == ChannelOf(CurrentMsg)
         rows == RowsOf(CurrentMsg)
         disk == AfterOpen(csv_disk, channel, TRUE)
     IN  /\ channel_files' =
              IF channel \in DOMAIN channel_files THEN channel_files
              ELSE Put(channel_files, channel, [path |-> channel, closed |-> FALSE])
         /\ csv_files_created' =
              IF channel \in DOMAIN channel_files THEN csv_files_created
              ELSE Append(csv_files_created, channel)
         /\ csv_disk' = [disk EXCEPT ![channel].rows = @ \o rows]
         /\ message_count' = message_count + Len(rows)
         /\ stats' = [stats EXCEPT !.messages.mongodb = @ + Len(rows)]
  /\ msg_idx' = msg_idx + 1
  /\ UNCHANGED <<db, local_tz, pc, slack_users, uid_map, rooms_by_type, out_files,
                 room_map, username_map, email_map, messages, close_idx,
                 total_messages, processed_messages, chunk_start, message_chunk,
                 json_disk, textVars>>

\* line 417 raises OSError: no handle is stored, the run ends
CsvOpenFails ==
  /\ InCsvLoop
  /\ Valid(CurrentMsg)
  /\ ChannelOf(CurrentMsg) \notin DOMAIN channel_files
  /\ pc' = "aborted"
  /\ UNCHANGED <<db, local_tz, slack_users, uid_map, rooms_by_type, out_files, room_map,
                 username_map, email_map, messages, msg_idx, message_count,
                 csv_files_created, channel_files, csv_disk, close_idx,
                 total_messages, processed_messages, chunk_start, message_chunk,
                 json_disk, stats, textVars>>

\* line 422 raises OSError: the handle is stored and open, the run ends
CsvHeaderFails ==
  /\ InCsvLoop
  /\ Valid(CurrentMsg)
  /\ ChannelOf(CurrentMsg) \notin DOMAIN channel_files
  /\ LET channel == ChannelOf(CurrentMsg)
     IN  /\ channel_files' =
              Put(channel_files, channel, [path |-> channel, closed |-> FALSE])
         /\ csv_disk' = AfterOpen(csv_disk, channel, FALSE)
  /\ pc' = "aborted"
  /\ UNCHANGED <<db, local_tz, slack_users, uid_map, rooms_by_type, out_files, room_map,
                 username_map, email_map, messages, msg_idx, message_count,
                 csv_files_created, close_idx, total_messages,
                 processed_messages, chunk_start, message_chunk, json_disk,
                 stats, textVars>>

\* line 427 raises OSError at part written + 1: the run ends
CsvRowFails ==
  /\ InCsvLoop
  /\ Valid(CurrentMsg)
  /\ LET channel == ChannelOf(CurrentMsg)
         rows == RowsOf(CurrentMsg)
         disk == AfterOpen(csv_disk, channel, TRUE)
     IN  \E written \in 0..(Len(rows) - 1) :
           /\ channel_files' =
                IF channel \in DOMAIN channel_files THEN channel_files
                ELSE Put(channel_files, channel,
                         [path |-> channel, closed |-> FALSE])
           /\ csv_files_created' =
                IF channel \in DOMAIN channel_files THEN csv_files_created
                ELSE Append(csv_files_created, channel)
           /\ csv_disk' =
                [disk EXCEPT ![channel].rows = @ \o SubSeq(rows, 1, written)]
           /\ message_count' = message_count + written
           /\ stats' = [stats EXCEPT !.messages.mongodb = @ + written]
  /\ pc' = "aborted"
  /\ UNCHANGED <<db, local_tz, slack_users, uid_map, rooms_by_type, out_files, room_map,
                 username_map, email_map, messages, msg_idx, close_idx,
                 total_messages, processed_messages, chunk_start, message_chunk,
                 json_disk, textVars>>

\* line 392: the messages are exhausted
CsvLoopEnd ==
  /\ pc = "csv_loop"
  /\ msg_idx = Len(messages)
  /\ close_idx' = 0
  /\ pc' = "csv_close"
  /\ UNCHANGED <<db, local_tz, slack_users, uid_map, rooms_by_type, out_files, room_map,
                 username_map, email_map, messages, msg_idx, message_count,
                 csv_files_created, channel_files, csv_disk, total_messages,
                 processed_messages, chunk_start, message_chunk, json_disk,
                 stats, textVars>>

\* channel_files.values() iterates in insertion order: that of
\* csv_files_created
ClosingChannel == csv_files_created[close_idx + 1]

InCloseLoop == pc = "csv_close" /\ close_idx < Len(csv_files_created)

\* file.close(): the handle is closed, whether or not its last flush worked
Closed ==
  /\ channel_files' = [channel_files EXCEPT ![ClosingChannel].closed = TRUE]
  /\ csv_disk' = [csv_disk EXCEPT ![ClosingChannel].closes = @ + 1]

\* lines 432-433, one handle
CloseHandle ==
  /\ InCloseLoop
  /\ Closed
  /\ close_idx' = close_idx + 1
  /\ UNCHANGED <<db, local_tz, pc, slack_users, uid_map, rooms_by_type, out_files,
                 room_map, username_map, email_map, messages, msg_idx,
                 message_count, csv_files_created, total_messages,
                 processed_messages, chunk_start, message_chunk, json_disk,
                 stats, textVars>>

\* line 433 raises OSError (the flush of close fails): the run ends
CloseFails ==
  /\ InCloseLoop
  /\ Closed
  /\ pc' = "aborted"
  /\ UNCHANGED <<db, local_tz, slack_users, uid_map, rooms_by_type, out_files, room_map,
                 username_map, email_map, messages, msg_idx, message_count,
                 csv_files_created, close_idx, total_messages,
                 processed_messages, chunk_start, message_chunk, json_disk,
                 stats, textVars>>

\* line 432: every handle is closed
CloseLoopEnd ==
  /\ pc = "csv_close"
  /\ close_idx = Len(csv_files_created)
  /\ pc' = "phase4"
  /\ UNCHANGED <<db, local_tz, slack_users, uid_map, rooms_by_type, out_files, room_map,
                 username_map, email_map, messages, msg_idx, message_count,
                 csv_files_created, channel_files, csv_disk, close_idx,
                 total_messages, processed_messages, chunk_start, message_chunk,
                 json_disk, stats, textVars>>

\* lines 446-450 without --json-dir: Path(None) raises TypeError
Phase4NoJsonDir ==
  /\ pc = "phase4"
  /\ total_messages' = Len(db.messages)
  /\ processed_messages' = 0
  /\ pc' = "aborted"
  /\ UNCHANGED <<db, local_tz, slack_users, uid_map, rooms_by_type, out_files, room_map,
                 username_map, email_map, messages, msg_idx, message_count,
                 csv_files_created, channel_files, csv_disk, close_idx,
                 chunk_start, message_chunk, json_disk, stats, textVars>>

\* lines 446-451 with --json-dir
Phase4Setup ==
  /\ pc = "phase4"
  /\ total_messages' = Len(db.messages)
  /\ processed_messages' = 0
  /\ chunk_start' = 0
  /\ pc' = "json_loop"
  /\ UNCHANGED <<db, local_tz, slack_users, uid_map, rooms_by_type, out_files, room_map,
                 username_map, email_map, messages, msg_idx, message_count,
                 csv_files_created, channel_files, csv_disk, close_idx,
                 message_chunk, json_disk, stats, textVars>>

\* the server's order of ts: a document without ts comes before every date
TsKey(m) == IF Has(m, "ts") THEN m.ts ELSE -1

ByTsServer(docs) ==
  [i \in 1..Len(docs) |->
     [j \in 1..Len(docs) |-> TsKey(docs[i]) < TsKey(docs[j])]]

\* line 456: find().sort("ts", ASCENDING).skip(chunk_start).limit(CHUNK_SIZE)
Pages(start) ==
  {SubSeq(order, start + 1, Min(start + ScaledChunkSize, Len(order))) :
     order \in SortedOrders(db.messages, ByTsServer(db.messages))}

\* lines 475-482: json.dumps of one record, a JSON text without a line break
JsonRecord(msg) ==
  [kind |-> "json",
   value |-> [timestamp |-> Timestamp(msg),
              channel |-> ChannelOf(msg),
              username |-> JsonUserOf(msg),
              text |-> process_message_content(msg)]]

CharTok(c) == [kind |-> "char", value |-> c]

\* line 487: the literal "\\n", a backslash and the letter n
LineSeparator == <<CharTok("\\"), CharTok("n")>>

\* line 487: "\\n".join(json_lines) + "\\n"
FileText(json_lines) ==
  Flatten([i \in 1..Len(json_lines) |->
             <<json_lines[i]>>
               \o (IF i < Len(json_lines) THEN LineSeparator ELSE <<>>)])
    \o LineSeparator

\* lines 454-489, one batch
JsonChunk ==
  /\ pc = "json_loop"
  /\ chunk_start < total_messages
  /\ \E chunk \in Pages(chunk_start) :
       LET valid == SelectSeq(chunk, Valid)
           json_lines == [i \in 1..Len(valid) |-> JsonRecord(valid[i])]
       IN  /\ message_chunk' = chunk
           /\ json_disk' =
                Put(json_disk, chunk_start \div ScaledChunkSize + 1,
                    FileText(json_lines))
           /\ processed_messages' = processed_messages + Len(chunk)
  /\ chunk_start' = chunk_start + ScaledChunkSize
  /\ UNCHANGED <<db, local_tz, pc, slack_users, uid_map, rooms_by_type, out_files,
                 room_map, username_map, email_map, messages, msg_idx,
                 message_count, csv_files_created, channel_files, csv_disk,
                 close_idx, total_messages, stats, textVars>>

\* line 454: the range is exhausted; lines 491-493
JsonLoopEnd ==
  /\ pc = "json_loop"
  /\ chunk_start >= total_messages
  /\ pc' = "done"
  /\ UNCHANGED <<db, local_tz, slack_users, uid_map, rooms_by_type, out_files, room_map,
                 username_map, email_map, messages, msg_idx, message_count,
                 csv_files_created, channel_files, csv_disk, close_idx,
                 total_messages, processed_messages, chunk_start, message_chunk,
                 json_disk, stats, textVars>>

Next ==
  \/ Phase1Entries
  \/ Phase1UidMap
  \/ Phase2Rooms
  \/ Phase2Write
  \/ BuildRoomMap
  \/ BuildUserMaps
  \/ SortMessagesFails
  \/ SortMessages
  \/ CsvSkip
  \/ CsvWrite
  \/ CsvOpenFails
  \/ CsvHeaderFails
  \/ CsvRowFails
  \/ CsvLoopEnd
  \/ CloseHandle
  \/ CloseFails
  \/ CloseLoopEnd
  \/ Phase4NoJsonDir
  \/ Phase4Setup
  \/ JsonChunk
  \/ JsonLoopEnd

Spec == Init /\ [][Next]_vars

(***************************************************************************)
(* Properties of prepare_message_for_csv and of the CSV text column.       *)
(***************************************************************************)
CeilDiv(a, b) == CHOOSE n \in 0..a : n * b >= a /\ (n - 1) * b < a

IsPrefixOf(p, s) == Len(p) <= Len(s) /\ SubSeq(s, 1, Len(p)) = p

DropPrefix(p, s) == SubSeq(s, Len(p) + 1, Len(s))

HasQuote(s) == \E i \in 1..Len(s) : s[i] = QUOTE

Oversized ==
  /\ arg_text # None
  /\ arg_text # <<>>
  /\ Len(escape_for_csv(arg_text)) > arg_max_length

\* C1: a non-empty text whose escaped form is longer than max_length is
\* returned as N = ceil(L / max_length) parts; part i is '[Part i/N] '
\* followed by a segment of at most max_length characters, and the segments
\* of parts 1..N in order concatenate to the escaped text.
C1_SplitRoundTrip ==
  (tpc # "call" /\ Oversized) =>
    LET escaped == escape_for_csv(arg_text)
        N == CeilDiv(Len(escaped), arg_max_length)
    IN  /\ Len(ret_parts) = N
        /\ \A i \in 1..Len(ret_parts) :
             /\ IsPrefixOf(PartPrefix(i, N), ret_parts[i])
             /\ Len(DropPrefix(PartPrefix(i, N), ret_parts[i])) <= arg_max_length
        /\ Flatten([i \in 1..Len(ret_parts) |->
                      DropPrefix(PartPrefix(i, N), ret_parts[i])]) = escaped

\* a text with a quote split into at least three parts, the last part short
C1_Witness ==
  /\ tpc = "prepared"
  /\ Oversized
  /\ HasQuote(arg_text)
  /\ Len(ret_parts) >= 3
  /\ Len(escape_for_csv(arg_text)) % arg_max_length # 0

\* C2: every part returned for an oversized message, its '[Part i/N] '
\* prefix included, is at most max_length characters long.
C2_PartWithinMaxLength ==
  (tpc # "call" /\ Oversized) =>
    \A k \in 1..Len(ret_parts) : Len(ret_parts[k]) <= arg_max_length

\* C3 as stated: a text whose own length is at most the threshold comes
\* back as the single part escape_for_csv(text).
C3_FitsByOwnLength ==
  (tpc # "call" /\ arg_text # None /\ Len(arg_text) <= arg_max_length) =>
    ret_parts = <<escape_for_csv(arg_text)>>

\* C3 amended: a text whose escaped length (every double quote counted
\* twice) is at most the threshold comes back as the single part
\* escape_for_csv(text), without a '[Part i/N]' prefix.
C3_FitsByEscapedLength ==
  (tpc # "call" /\ arg_text # None
     /\ Len(escape_for_csv(arg_text)) <= arg_max_length) =>
    ret_parts = <<escape_for_csv(arg_text)>>

\* a text with a quote whose escaped form is exactly max_length long
C3_Witness ==
  /\ tpc = "prepared"
  /\ arg_text # None
  /\ HasQuote(arg_text)
  /\ Len(escape_for_csv(arg_text)) = arg_max_length
  /\ Len(ret_parts) = 1

\* C4: the text column of the row of a message that is not split is the
\* content as a quoted CSV field with each double quote of the content
\* doubled once: hi "there" is written as "hi ""there""".
C4_QuoteDoubledOnce ==
  (tpc = "written" /\ arg_text # None /\ Len(ret_parts) = 1
     /\ HasQuote(arg_text)) =>
    csv_fields[1] = <<QUOTE>> \o ReplaceQuotes(arg_text) \o <<QUOTE>>

(***************************************************************************)
(* Properties of the export.                                               *)
(***************************************************************************)
ValidMessages == SelectSeq(db.messages, Valid)

RECURSIVE SumLen(_)
SumLen(seqs) == IF seqs = <<>> THEN 0 ELSE Len(Head(seqs)) + SumLen(Tail(seqs))

\* the CSV rows the valid messages of the source call for, one per part
ValidRowCount ==
  SumLen([i \in 1..Len(ValidMessages) |-> TextParts(ValidMessages[i])])

\* C5: after a full run no output total includes a message that lacks its
\* rid, its u or its ts: the CSV row counters count the rows of the valid
\* messages and processed_messages counts the valid messages.
C5_InvalidNotCounted ==
  pc = "done" =>
    /\ message_count = ValidRowCount
    /\ stats.messages.mongodb = ValidRowCount
    /\ processed_messages = Len(ValidMessages)

\* the part numbers a message of the source can reach
PartNumbers ==
  1..(1 + SumLen([i \in 1..Len(ValidMessages) |-> TextParts(ValidMessages[i])]))

\* the text column of a row is part i of n of a split message
IsPart(field, i, n) ==
  LET part == IF field # <<>> /\ field[1] = QUOTE THEN Tail(field) ELSE field
  IN  IsPrefixOf(PartPrefix(i, n), part)

NonDecreasing(ts) == \A k \in 1..(Len(ts) - 1) : ts[k] <= ts[k + 1]

JsonRecordsOf(content) ==
  LET IsJson(tok) == tok.kind = "json"
      recs == SelectSeq(content, IsJson)
  IN  [k \in 1..Len(recs) |-> recs[k].value]

\* C6: in every channel's CSV file and in every messages_<n>.json file the
\* timestamps never decrease from one record to the next, and the parts of
\* a split message are consecutive rows in part order 1..N (the last parts
\* missing only when a write error ended the run).  The records are written
\* in the order of ts; their timestamps follow that order only where
\* EpochSeconds ascends, which it does not across the skipped local hour.
C6_TimestampOrder ==
  /\ \A ch \in DOMAIN csv_disk :
       LET rows == csv_disk[ch].rows
       IN  /\ NonDecreasing([k \in 1..Len(rows) |-> rows[k].timestamp])
           /\ \A k \in 1..Len(rows) : \A n \in PartNumbers : \A i \in 1..n :
                IsPart(rows[k].text, i, n) =>
                  /\ i > 1 =>
                       /\ k > 1
                       /\ IsPart(rows[k - 1].text, i - 1, n)
                       /\ rows[k - 1].timestamp = rows[k].timestamp
                  /\ (i < n /\ k < Len(rows)) => IsPart(rows[k + 1].text, i + 1, n)
                  /\ (i < n /\ k = Len(rows)) => pc = "aborted"
  /\ \A f \in DOMAIN json_disk :
       LET recs == JsonRecordsOf(json_disk[f])
       IN  NonDecreasing([k \in 1..Len(recs) |-> recs[k].timestamp])

RoomMapBuilt == pc \notin {"phase1", "uid_map", "phase2", "phase2_write", "room_map"}

\* C8: the name make_room_entry writes for a room is the channel room_map
\* holds for it, and is 'dm-<room id>' for a room without name and usernames.
C8_RoomNameIsChannel ==
  RoomMapBuilt =>
    \A f \in DOMAIN rooms_by_type : \A k \in 1..Len(rooms_by_type[f]) :
      \A i \in 1..Len(db.rooms) :
        rooms_by_type[f][k].id = <<"C">> \o db.rooms[i]._id =>
          /\ rooms_by_type[f][k].name = room_map[db.rooms[i]._id]
          /\ (~Has(db.rooms[i], "name") /\ ~Has(db.rooms[i], "usernames")) =>
               rooms_by_type[f][k].name = <<"d", "m", "-">> \o db.rooms[i]._id

IsLineFeed(tok) == tok.kind = "char" /\ tok.value = LF

\* content.split("\n")
RECURSIVE SplitLF(_)
SplitLF(content) ==
  IF Len(content) = 0 THEN << <<>> >>
  ELSE LET rest == SplitLF(Tail(content))
       IN  IF IsLineFeed(Head(content)) THEN << <<>> >> \o rest
           ELSE << <<Head(content)>> \o rest[1] >> \o Tail(rest)

\* the lines of a file that ends each line with a line feed
LinesOf(content) ==
  LET pieces == SplitLF(content)
  IN  IF Len(pieces[Len(pieces)]) = 0
      THEN SubSeq(pieces, 1, Len(pieces) - 1)
      ELSE pieces

\* C9: split on line feeds, messages_<b>.json holds one JSON record per
\* valid message of batch b, each record alone on its line, and the files
\* are numbered 1, 2, 3, ... without a gap.
C9_OneRecordPerLine ==
  (pc \in {"json_loop", "done"} /\ chunk_start > 0) =>
    /\ DOMAIN json_disk = 1..(chunk_start \div ScaledChunkSize)
    /\ \A f \in DOMAIN json_disk :
         \A l \in 1..Len(LinesOf(json_disk[f])) :
           /\ Len(LinesOf(json_disk[f])[l]) = 1
           /\ LinesOf(json_disk[f])[l][1].kind = "json"
    /\ Len(LinesOf(json_disk[chunk_start \div ScaledChunkSize]))
         = Len(SelectSeq(message_chunk, Valid))

\* C10: at the end of the run, however it ends, every channel file that
\* was opened was opened once and closed once.
C10_HandlesClosedOnce ==
  pc \in {"done", "aborted"} =>
    \A ch \in DOMAIN csv_disk :
      csv_disk[ch].opens = 1 /\ csv_disk[ch].closes = 1

=============================================================================
